---- MODULE Spec2Model ----
(***************************************************************************)
(* Quadtree decomposition of rust-quadtree-art (src/src/quad.rs).          *)
(*                                                                         *)
(* The state is that of one call of subdivide_nodes: the shared image, the *)
(* root quad, the configuration, the work queue and the leaf vector.  A    *)
(* step of the model is one iteration of the `while let` loop.             *)
(*                                                                         *)
(* Numbers.  Coordinates, sizes and depths are u32 in the code; within the *)
(* bounds below every sum stays far under 2^32, so they are plain          *)
(* integers here (no wrap can occur on the values the model draws).  The   *)
(* f64 returned by calc_color_distance is kept as the exact fraction       *)
(* color_sum / pixel_count: the palette below varies in the red channel    *)
(* only, so every per-pixel distance sqrt(d*d) is an integer, the sum is   *)
(* exact in f64, and with integer thresholds `distance > threshold` is the *)
(* comparison color_sum > threshold * pixel_count.                         *)
(*                                                                         *)
(* Quad.image (an Rc shared by all quads) is the variable `image`;         *)
(* Quad.config is never read by the code and is left out of the record.    *)
(***************************************************************************)
EXTENDS Integers, Sequences, FiniteSets

VARIABLES image, config, initial_quad, deque, quadtree_leaves, pc, warned,
          children, results, todo

vars == <<image, config, initial_quad, deque, quadtree_leaves, pc, warned,
          children, results, todo>>

----------------------------------------------------------------------------
(* Bounds of the model *)

\* largest image side
MaxImg == 3
\* largest number of pixels of an image
MaxPixels == 6
\* largest x / y of a root quad's origin
MaxOrigin == 1
\* largest max_depth of a configuration
MaxDepth == 2
\* largest size_threshold of a configuration
MaxSizeThreshold == 1
\* largest origin coordinate and side of a region handed to subdivide alone
MaxCoord == 2
MaxDim == 5
\* The leaf cap.  quad.rs:46 sets MAX_QUADS to 100_000; the model scales it
\* down so that a bounded image can produce more leaves than the cap.
MAX_QUADS == 3

----------------------------------------------------------------------------
(* Pixels and images *)

Min(a, b) == IF a < b THEN a ELSE b

\* Rgba<u8> as <<r, g, b, a>>
Red == <<255, 0, 0, 255>>
Dark == <<250, 0, 0, 128>>
Palette == {Red, Dark}

Shapes == {s \in (1..MaxImg) \X (1..MaxImg) : s[1] * s[2] <= MaxPixels}

Images ==
    UNION {[width : {s[1]}, height : {s[2]},
            pixels : [(0..(s[1] - 1)) \X (0..(s[2] - 1)) -> Palette]] : s \in Shapes}

\* color_threshold values (f64, integer-valued)
Thresholds == {0, 1, 2}

Configs ==
    [max_depth : 0..MaxDepth, color_threshold : Thresholds,
     size_threshold : 0..MaxSizeThreshold]

----------------------------------------------------------------------------
(* Quad *)

QuadNew(x, y, width, height) ==
    [x |-> x, y |-> y, width |-> width, height |-> height,
     color |-> <<0, 0, 0, 255>>, cur_depth |-> 0]

\* end_x - x and end_y - y of the two statistics loops (0 when the range
\* x..end_x is empty): end_x = min(x + width, image.width())
ClampedWidth(q) ==
    LET end_x == Min(q.x + q.width, image.width)
    IN  IF end_x > q.x THEN end_x - q.x ELSE 0

ClampedHeight(q) ==
    LET end_y == Min(q.y + q.height, image.height)
    IN  IF end_y > q.y THEN end_y - q.y ELSE 0

\* the i-th pixel the loops visit (for x in ..., for y in ...), i from 0
PixelAt(q, i) ==
    image.pixels[<<q.x + (i \div ClampedHeight(q)), q.y + (i % ClampedHeight(q))>>]

\* pixel_count after the loops
PixelCount(q) == ClampedWidth(q) * ClampedHeight(q)

\* total_red / total_green / total_blue after the loops (c = 1, 2, 3)
SumChannel(q, c) ==
    LET total[i \in 0..PixelCount(q)] ==
            IF i = 0 THEN 0 ELSE total[i - 1] + PixelAt(q, i - 1)[c]
    IN  total[PixelCount(q)]

\* accumulators one byte wide
CalcAvgColorNarrow(q) ==
    IF PixelCount(q) = 0 THEN <<0, 0, 0, 255>>
    ELSE <<((SumChannel(q, 1) % 256) \div PixelCount(q)) % 256,
           ((SumChannel(q, 2) % 256) \div PixelCount(q)) % 256,
           ((SumChannel(q, 3) % 256) \div PixelCount(q)) % 256, 255>>

CalcAvgColor(q) ==
    IF PixelCount(q) = 0 THEN <<0, 0, 0, 255>>
    ELSE <<(SumChannel(q, 1) \div PixelCount(q)) % 256,
           (SumChannel(q, 2) \div PixelCount(q)) % 256,
           (SumChannel(q, 3) \div PixelCount(q)) % 256, 255>>

\* f64::sqrt on a perfect square
Sqrt(n) == CHOOSE k \in 0..n : k * k = n

\* (a - p)^2
SquaredDiff(a, p) == (a - p) * (a - p)

\* color_sum after the loops, avg_rgba the region's average colour
SumDistance(q, avg_rgba) ==
    LET color_sum[i \in 0..PixelCount(q)] ==
            IF i = 0 THEN 0
            ELSE color_sum[i - 1]
                   + Sqrt(SquaredDiff(avg_rgba[1], PixelAt(q, i - 1)[1])
                            + SquaredDiff(avg_rgba[2], PixelAt(q, i - 1)[2])
                            + SquaredDiff(avg_rgba[3], PixelAt(q, i - 1)[3]))
    IN  color_sum[PixelCount(q)]

\* the f64 result as the fraction num / den; avg_color is bound once, as
\* `let avg_color = self.calc_avg_color()` does before the loops
CalcColorDistance(q) ==
    IF PixelCount(q) = 0 THEN [num |-> 0, den |-> 1]
    ELSE CHOOSE d \in {[num |-> SumDistance(q, avg_color), den |-> PixelCount(q)] :
                          avg_color \in {CalcAvgColor(q)}} : TRUE

\* d > t for the fraction d and the integer-valued t
Exceeds(d, t) == d.num > t * d.den

\* the top-right child takes the left child's width
SubdivideSameWidth(q) ==
    LET new_width == (q.width + 1) \div 2
        new_height == (q.height + 1) \div 2
        x1 == q.x
        x2 == (q.x + new_width)
        y1 == q.y
        y2 == (q.y + new_height)
        remaining_width == (q.width - new_width)
        remaining_height == (q.height - new_height)
        Child(x, y, w, h) ==
            [x |-> x, y |-> y, width |-> w, height |-> h,
             color |-> <<0, 0, 0, 255>>, cur_depth |-> (q.cur_depth + 1)]
    IN  << Child(x1, y1, new_width, new_height),
           Child(x2, y1, new_width, new_height),
           Child(x1, y2, new_width, remaining_height),
           Child(x2, y2, remaining_width, remaining_height) >>

Subdivide(q) ==
    LET new_width == (q.width + 1) \div 2
        new_height == (q.height + 1) \div 2
        x1 == q.x
        x2 == (q.x + new_width)
        y1 == q.y
        y2 == (q.y + new_height)
        remaining_width == (q.width - new_width)
        remaining_height == (q.height - new_height)
        Child(x, y, w, h) ==
            [x |-> x, y |-> y, width |-> w, height |-> h,
             color |-> <<0, 0, 0, 255>>, cur_depth |-> (q.cur_depth + 1)]
    IN  << Child(x1, y1, new_width, new_height),
           Child(x2, y1, remaining_width, new_height),
           Child(x1, y2, new_width, remaining_height),
           Child(x2, y2, remaining_width, remaining_height) >>

\* depth compared with <=
ShouldSubdivideDepthLe(quad, cfg) ==
    /\ quad.cur_depth <= cfg.max_depth
    /\ Exceeds(CalcColorDistance(quad), cfg.color_threshold)
    /\ quad.width > cfg.size_threshold
    /\ quad.height > cfg.size_threshold

\* the two size conditions joined by "or"
ShouldSubdivideSizeOr(quad, cfg) ==
    /\ quad.cur_depth < cfg.max_depth
    /\ Exceeds(CalcColorDistance(quad), cfg.color_threshold)
    /\ (quad.width > cfg.size_threshold \/ quad.height > cfg.size_threshold)

\* the colour comparison turned round
ShouldSubdivideColorLt(quad, cfg) ==
    LET d == CalcColorDistance(quad)
    IN  /\ quad.cur_depth < cfg.max_depth
        /\ d.num < cfg.color_threshold * d.den
        /\ quad.width > cfg.size_threshold
        /\ quad.height > cfg.size_threshold

ShouldSubdivide(quad, cfg) ==
    /\ quad.cur_depth < cfg.max_depth
    /\ Exceeds(CalcColorDistance(quad), cfg.color_threshold)
    /\ quad.width > cfg.size_threshold
    /\ quad.height > cfg.size_threshold

----------------------------------------------------------------------------
(* subdivide_nodes: one action per way an iteration of the loop can go *)

\* the root quads handed to subdivide_nodes: a rectangle of the image's size
\* or smaller, at an origin that need not be (0, 0)
Roots(img) ==
    {QuadNew(r[1], r[2], r[3], r[4]) :
        r \in (0..MaxOrigin) \X (0..MaxOrigin) \X (1..img.width) \X (1..img.height)}

InitRun ==
    /\ deque = <<initial_quad>>
    /\ quadtree_leaves = <<>>
    /\ pc = "loop"
    /\ warned = FALSE

Init ==
    /\ image \in Images
    /\ config \in Configs
    /\ initial_quad \in Roots(image)
    /\ InitRun
    /\ children = <<>>
    /\ results = <<>>
    /\ todo = <<>>

CapExceeded == Len(quadtree_leaves) > MAX_QUADS

Invalid(q) == q.x >= initial_quad.width \/ q.y >= initial_quad.height

\* lines 48-53: the popped quad is dropped, the warning printed, the loop left
CapBreak ==
    /\ pc = "loop"
    /\ deque # <<>>
    /\ CapExceeded
    /\ deque' = Tail(deque)
    /\ warned' = TRUE
    /\ pc' = "done"
    /\ UNCHANGED <<image, config, initial_quad, quadtree_leaves, children, results, todo>>

\* the skipped quad stays at the front of the queue
SkipInvalidNoPop ==
    /\ pc = "loop"
    /\ deque # <<>>
    /\ ~CapExceeded
    /\ Invalid(Head(deque))
    /\ UNCHANGED vars

\* lines 55-58
SkipInvalid ==
    /\ pc = "loop"
    /\ deque # <<>>
    /\ ~CapExceeded
    /\ Invalid(Head(deque))
    /\ deque' = Tail(deque)
    /\ UNCHANGED <<image, config, initial_quad, quadtree_leaves, pc, warned,
                   children, results, todo>>

\* lines 61-65
Expand ==
    /\ pc = "loop"
    /\ deque # <<>>
    /\ ~CapExceeded
    /\ ~Invalid(Head(deque))
    /\ ShouldSubdivide(Head(deque), config)
    /\ deque' = Tail(deque) \o Subdivide(Head(deque))
    /\ UNCHANGED <<image, config, initial_quad, quadtree_leaves, pc, warned,
                   children, results, todo>>

\* lines 66-70
EmitLeaf ==
    /\ pc = "loop"
    /\ deque # <<>>
    /\ ~CapExceeded
    /\ ~Invalid(Head(deque))
    /\ ~ShouldSubdivide(Head(deque), config)
    /\ quadtree_leaves' =
           Append(quadtree_leaves, [Head(deque) EXCEPT !.color = CalcAvgColor(Head(deque))])
    /\ deque' = Tail(deque)
    /\ UNCHANGED <<image, config, initial_quad, pc, warned, children, results, todo>>

\* pop_front returns None: the loop ends and the leaves are returned
Return ==
    /\ pc = "loop"
    /\ deque = <<>>
    /\ pc' = "done"
    /\ UNCHANGED <<image, config, initial_quad, deque, quadtree_leaves, warned,
                   children, results, todo>>

Next == CapBreak \/ SkipInvalid \/ Expand \/ EmitLeaf \/ Return

Spec == Init /\ [][Next]_vars

\* main(): let q = Quad::new(img, 0, 0, w, h, config.clone());
\*         let quadtree_leaves = subdivide_nodes(q, &config);
InitMain ==
    /\ image \in Images
    /\ config \in Configs
    /\ initial_quad = QuadNew(0, 0, image.width, image.height)
    /\ InitRun
    /\ children = <<>>
    /\ results = <<>>
    /\ todo = <<>>

\* the loop is sequential code: it keeps taking steps until it returns
FairSpec == InitMain /\ [][Next]_vars /\ WF_vars(Next)

----------------------------------------------------------------------------
(* Quad::subdivide on its own (as test_quad_subdivision calls it) *)

Regions ==
    {QuadNew(r[1], r[2], r[3], r[4]) :
        r \in (0..MaxCoord) \X (0..MaxCoord) \X (1..MaxDim) \X (1..MaxDim)}

InitSplit ==
    /\ image = [width |-> 1, height |-> 1, pixels |-> [p \in {<<0, 0>>} |-> Red]]
    /\ config = [max_depth |-> 7, color_threshold |-> 10, size_threshold |-> 5]
    /\ initial_quad \in Regions
    /\ deque = <<>>
    /\ quadtree_leaves = <<>>
    /\ pc = "split"
    /\ warned = FALSE
    /\ children = <<>>
    /\ results = <<>>
    /\ todo = <<>>

\* let children = quad.subdivide();
SubdivideCall ==
    /\ pc = "split"
    /\ children' = Subdivide(initial_quad)
    /\ pc' = "done"
    /\ UNCHANGED <<image, config, initial_quad, deque, quadtree_leaves, warned,
                   results, todo>>

SpecSplit == InitSplit /\ [][SubdivideCall]_vars

----------------------------------------------------------------------------
(* Two calls of subdivide_nodes on one image, the higher color_threshold   *)
(* first, as test_different_configurations makes them.  `results` keeps    *)
(* the earlier call's leaves.len(), `todo` the threshold still to be run.  *)

InitMono ==
    /\ image \in Images
    /\ config \in Configs
    /\ initial_quad \in
           {QuadNew(o[1], o[2], image.width, image.height) :
               o \in (0..MaxOrigin) \X (0..MaxOrigin)}
    /\ InitRun
    /\ children = <<>>
    /\ results = <<>>
    /\ todo \in {<<t>> : t \in {u \in Thresholds : u <= config.color_threshold}}

\* the second call: same image, max_depth and size_threshold, next threshold
NextCall ==
    /\ pc = "done"
    /\ todo # <<>>
    /\ results' = Append(results, Len(quadtree_leaves))
    /\ config' = [config EXCEPT !.color_threshold = Head(todo)]
    /\ todo' = Tail(todo)
    /\ deque' = <<initial_quad>>
    /\ quadtree_leaves' = <<>>
    /\ pc' = "loop"
    /\ warned' = FALSE
    /\ UNCHANGED <<image, initial_quad, children>>

NextMono == Next \/ NextCall

SpecMono == InitMono /\ [][NextMono]_vars

----------------------------------------------------------------------------
(* Vocabulary of the properties *)

Contains(q, p) ==
    /\ q.x <= p[1] /\ p[1] < q.x + q.width
    /\ q.y <= p[2] /\ p[2] < q.y + q.height

PixelsOf(q) == (q.x..(q.x + q.width - 1)) \X (q.y..(q.y + q.height - 1))

\* ceil(n / 2), stated without the code's (n + 1) / 2
CeilHalf(n) == CHOOSE k \in 0..n : 2 * k >= n /\ 2 * (k - 1) < n

\* the two rectangles share at least one pixel
Overlaps(q, r) == PixelsOf(q) \cap PixelsOf(r) # {}

WholeImageRoot == initial_quad = QuadNew(0, 0, image.width, image.height)

UniformImage == \A p \in DOMAIN image.pixels : image.pixels[p] = image.pixels[<<0, 0>>]

\* the four conditions of the policy, spelled out
PolicyHolds(q) ==
    /\ q.cur_depth < config.max_depth
    /\ Exceeds(CalcColorDistance(q), config.color_threshold)
    /\ q.width > config.size_threshold
    /\ q.height > config.size_threshold

\* c is the truncated per-channel mean of q's (clamped) pixels, alpha 255;
\* black when q holds no pixel
IsMeanColor(c, q) ==
    LET n == PixelCount(q)
    IN  IF n = 0 THEN c = <<0, 0, 0, 255>>
        ELSE /\ c[4] = 255
             /\ \A ch \in 1..3 :
                    /\ c[ch] * n <= SumChannel(q, ch)
                    /\ SumChannel(q, ch) < (c[ch] + 1) * n

\* this step of the loop enqueued the four children of the region at the front
ExpandedFront == pc = "loop" /\ deque # <<>> /\ Len(deque') = Len(deque) + 3

\* this step of the loop emitted the region at the front as a leaf
EmittedFront ==
    pc = "loop" /\ deque # <<>> /\ Len(quadtree_leaves') = Len(quadtree_leaves) + 1

\* this step of the loop dropped the region at the front and went on
DiscardedFront ==
    /\ pc = "loop" /\ pc' = "loop" /\ deque # <<>>
    /\ deque' = Tail(deque)
    /\ quadtree_leaves' = quadtree_leaves

\* the region at the front passes the cap check and the validity check of
\* this iteration, and so comes to the subdivision decision
ReachesDecision ==
    /\ pc = "loop" /\ deque # <<>>
    /\ Len(quadtree_leaves) <= MAX_QUADS
    /\ Head(deque).x < initial_quad.width
    /\ Head(deque).y < initial_quad.height

----------------------------------------------------------------------------
(* C1 *)

\* C1: the four children returned by subdivide() partition the parent
\* rectangle: every pixel of the parent lies in exactly one child, no child
\* reaches outside the parent, the left children are ceil(w/2) wide and the
\* right ones w - ceil(w/2), the top children ceil(h/2) high and the bottom
\* ones h - ceil(h/2).
C1_Tiling ==
    children # <<>> =>
        LET q == initial_quad
        IN  /\ Len(children) = 4
            /\ \A p \in PixelsOf(q) :
                   Cardinality({i \in 1..4 : Contains(children[i], p)}) = 1
            /\ \A i \in 1..4 : PixelsOf(children[i]) \subseteq PixelsOf(q)
            /\ children[1].width = CeilHalf(q.width)
            /\ children[3].width = CeilHalf(q.width)
            /\ children[2].width = q.width - CeilHalf(q.width)
            /\ children[4].width = q.width - CeilHalf(q.width)
            /\ children[1].height = CeilHalf(q.height)
            /\ children[2].height = CeilHalf(q.height)
            /\ children[3].height = q.height - CeilHalf(q.height)
            /\ children[4].height = q.height - CeilHalf(q.height)

\* an odd width and a height of 1 have been split
C1_Witness ==
    /\ children # <<>>
    /\ initial_quad.width = 3
    /\ initial_quad.height = 1
    /\ initial_quad.x = 1

----------------------------------------------------------------------------
(* C2 *)

\* C2: the leaf set never holds more than MAX_QUADS entries.
C2_LeafCap == Len(quadtree_leaves) <= MAX_QUADS

----------------------------------------------------------------------------
(* C3 *)

\* C3: every child created by an expansion has its parent's depth + 1, and
\* no leaf has a depth above max_depth.
C3_Depth ==
    /\ [][ExpandedFront =>
            \A i \in Len(deque)..Len(deque') :
                deque'[i].cur_depth = Head(deque).cur_depth + 1]_vars
    /\ [](\A i \in 1..Len(quadtree_leaves) :
            quadtree_leaves[i].cur_depth <= config.max_depth)

\* a leaf two levels down, at max_depth
C3_Witness ==
    /\ config.max_depth = 2
    /\ \E i \in 1..Len(quadtree_leaves) : quadtree_leaves[i].cur_depth = 2

----------------------------------------------------------------------------
(* C4 *)

\* C4: the loop of subdivide_nodes terminates (the queue runs empty or the
\* cap stops it) and the leaves are returned.
C4_Termination == <>(pc = "done")

\* a run that expanded the root has returned with the queue empty
C4_Witness ==
    /\ pc = "done"
    /\ deque = <<>>
    /\ ~warned
    /\ Len(quadtree_leaves) > 1

----------------------------------------------------------------------------
(* C5 *)

\* C5: on one image with one max_depth and size_threshold, the call with
\* the lower color_threshold returns at least as many leaves as the call
\* with the higher one.
C5_Monotone ==
    (pc = "done" /\ results # <<>>) => Len(quadtree_leaves) >= results[1]

\* the lower threshold returned strictly more leaves, and hit the cap
C5_Witness ==
    /\ pc = "done"
    /\ results # <<>>
    /\ Len(quadtree_leaves) > results[1]
    /\ warned

----------------------------------------------------------------------------
(* C6 *)

\* C6: every region in the traversal queue has width > 0 and height > 0.
C6_QueuedPositive ==
    \A i \in 1..Len(deque) : deque[i].width > 0 /\ deque[i].height > 0

----------------------------------------------------------------------------
(* C7 *)

\* C7: on an image of one colour c, the whole-image root has average colour
\* c (its RGB channels; the alpha of an average is always 255) and
\* non-uniformity 0, and with a positive color_threshold nothing but the
\* root is ever queued and the returned leaf set is the root with colour c.
C7_UniformRoot ==
    (UniformImage /\ WholeImageRoot /\ config.color_threshold > 0) =>
        LET c == image.pixels[<<0, 0>>]
            rgb == <<c[1], c[2], c[3], 255>>
        IN  /\ CalcAvgColor(initial_quad) = rgb
            /\ CalcColorDistance(initial_quad).num = 0
            /\ \A i \in 1..Len(deque) : deque[i] = initial_quad
            /\ pc = "done" => quadtree_leaves = <<[initial_quad EXCEPT !.color = rgb]>>

\* a uniform image of several pixels has been run to the end
C7_Witness ==
    /\ UniformImage
    /\ WholeImageRoot
    /\ config.color_threshold > 0
    /\ config.max_depth > 0
    /\ config.size_threshold = 0
    /\ image.width * image.height >= 4
    /\ pc = "done"
    /\ Len(quadtree_leaves) = 1

----------------------------------------------------------------------------
(* C8 *)

----------------------------------------------------------------------------
(* C9 *)

\* C9: a dequeued region is discarded only when its rectangle lies entirely
\* outside the root's rectangle.
C9_DiscardOnlyOutside ==
    [][DiscardedFront => ~Overlaps(Head(deque), initial_quad)]_vars

----------------------------------------------------------------------------
(* C10 *)

\* C10: for a root at (0,0) covering the whole image, at every step the
\* regions in the queue together with the leaves partition the root: every
\* pixel of the root lies in exactly one of them.
C10_Partition ==
    WholeImageRoot =>
        \A p \in PixelsOf(initial_quad) :
            Cardinality({i \in 1..Len(deque) : Contains(deque[i], p)})
              + Cardinality({i \in 1..Len(quadtree_leaves) :
                                Contains(quadtree_leaves[i], p)}) = 1

====
